---- MODULE Spec2Model ----
(***************************************************************************)
(* Model of pyclient/wallet/simplewallet_client.py: the SimpleWalletClient *)
(* object (its instance attributes), its constructor and its three public  *)
(* operations deposit, withdraw and balance, together with the two private *)
(* helpers _send_to_restapi and _wrap_and_send.                            *)
(*                                                                         *)
(* Text and byte strings are sequences of one-character (or one-token)     *)
(* strings; str.format is concatenation of such sequences.  The file       *)
(* system, the wall clock and the REST gateway are the environment: every  *)
(* action draws their answer with \E from the answers they can give.       *)
(***************************************************************************)
EXTENDS Integers, Sequences, FiniteSets, TLC

VARIABLES
    phase,      \* "new": no client yet; "ready": __init__ returned; "failed": __init__ raised
    client,     \* the instance __dict__ : which attributes are set, and their values
    clock,      \* the wall clock, in ticks of its resolution
    calls,      \* number of public operations called so far
    last,       \* the most recent call: operation, arguments, outcome, the events it caused
    txns,       \* one entry per transaction header built by _wrap_and_send, in call order
    queried,    \* addresses that appeared in a GET state/{address}
    written     \* addresses that appeared as input/output of a POSTed transaction

vars == <<phase, client, clock, calls, last, txns, queried, written>>

----------------------------------------------------------------------------
(* Bounds of the model *)

MaxCalls == 2
MaxClock == 1
MaxFileLen == 3
MaxDataLen == 5

----------------------------------------------------------------------------
(* Generic helpers on sequences *)

\* All sequences over S of length 0..n
SeqsUpTo(S, n) == UNION { [1..k -> S] : k \in 0..n }

\* s[from:] in Python terms, 1-based
Drop(s, k) == SubSeq(s, k + 1, Len(s))

\* str.startswith
StartsWith(s, p) == Len(s) >= Len(p) /\ SubSeq(s, 1, Len(p)) = p

\* p in s, for strings
Contains(s, p) ==
    \E i \in 0..(Len(s) - Len(p)) : SubSeq(s, i + 1, i + Len(p)) = p

DigitChars == <<"0", "1", "2", "3", "4", "5", "6", "7", "8", "9",
                "a", "b", "c", "d", "e", "f">>

\* digits of a natural number n in the given base, most significant first
RECURSIVE Digits(_, _)
Digits(n, base) ==
    IF n < base THEN <<DigitChars[n + 1]>>
    ELSE Digits(n \div base, base) \o <<DigitChars[(n % base) + 1]>>

\* str(n) for an int
StrInt(n) == IF n < 0 THEN <<"-">> \o Digits(0 - n, 10) ELSE Digits(n, 10)

\* float.hex() of a clock reading of t ticks: an injective hexadecimal rendering
FloatHex(t) == <<"0x">> \o Digits(t, 16)

----------------------------------------------------------------------------
(* Python values and exceptions *)

NoneVal == [tag |-> "None"]

Return(v) == [kind |-> "return", value |-> v]
Raise(e) == [kind |-> "raise", exc |-> e]

Exc(type, msg) == [type |-> type, msg |-> msg]

\* str(e) of an exception built with one argument
StrExc(e) == e.msg

\* the classes each exception type is an instance of
Bases(type) ==
    CASE type = "FileNotFoundError" -> {"FileNotFoundError", "OSError", "Exception", "BaseException"}
      [] type = "PermissionError" -> {"PermissionError", "OSError", "Exception", "BaseException"}
      [] type = "UnicodeDecodeError" -> {"UnicodeDecodeError", "ValueError", "Exception", "BaseException"}
      [] type = "ConnectionError" -> {"ConnectionError", "RequestException", "OSError", "Exception", "BaseException"}
      [] type = "ConnectTimeout" -> {"ConnectTimeout", "ConnectionError", "RequestException", "OSError", "Exception", "BaseException"}
      [] type = "ReadTimeout" -> {"ReadTimeout", "RequestException", "OSError", "Exception", "BaseException"}
      [] type = "KeyboardInterrupt" -> {"KeyboardInterrupt", "BaseException"}
      [] OTHER -> {type, "Exception", "BaseException"}

IsInstance(e, cls) == cls \in Bases(e.type)

\* wallet.simplewallet_exceptions.SimpleWalletException(arg): a plain Exception
\* subclass; arg is a message or another exception, and str() gives str(arg)
SimpleWalletException(msg) == Exc("SimpleWalletException", msg)

----------------------------------------------------------------------------
(* Hashing, keys and signatures: symbolic and injective *)

FAMILY_NAME == <<"simplewallet">>

\* hashlib.sha512(data).hexdigest()
Hash(data) == <<"sha512(">> \o data \o <<")">>

\* _hash(data)[0:n] : the first n hex digits of the digest
HashPrefix(data, n) == <<"sha512[0:">> \o StrInt(n) \o <<"](">> \o data \o <<")">>

\* number of hex digits of a private key (64 in the library, scaled down)
KeyHexLen == 2

HexChars == {"0", "a"}
Whitespace == {" "}
FileChars == HexChars \cup Whitespace \cup {"z"}

\* str.strip()
RECURSIVE LStrip(_)
LStrip(s) == IF s # <<>> /\ Head(s) \in Whitespace THEN LStrip(Tail(s)) ELSE s

RECURSIVE RStrip(_)
RStrip(s) ==
    IF s # <<>> /\ s[Len(s)] \in Whitespace THEN RStrip(SubSeq(s, 1, Len(s) - 1)) ELSE s

Strip(s) == RStrip(LStrip(s))

\* Secp256k1PrivateKey.from_hex: hex digits only, the right length, not zero;
\* every failure inside is re-raised as ParseError
FromHex(hexStr) ==
    IF /\ Len(hexStr) = KeyHexLen
       /\ \A i \in 1..Len(hexStr) : hexStr[i] \in HexChars
       /\ \E i \in 1..Len(hexStr) : hexStr[i] # "0"
    THEN Return([tag |-> "key", hex |-> hexStr])
    ELSE Raise(Exc("ParseError", <<"Unable to parse hex private key: ">> \o hexStr))

\* signer.get_public_key().as_hex()
PublicKeyHex(privateKey) == <<"pub(">> \o privateKey.hex \o <<")">>

\* signer.sign(message)
Sign(signer, message) == [signed |-> message, by |-> signer.hex]

\* protobuf SerializeToString
SerializeToString(type, fields) == [proto |-> type, fields |-> fields]

----------------------------------------------------------------------------
(* The constructor *)

BaseUrls ==
    { <<"h", "t", "t", "p", ":", "/", "/", "n">>,
      <<"h", "t", "t", "p", "s", ":", "/", "/", "n">>,
      <<"n">> }

KeyFiles == { [tag |-> "path", path |-> <<"k", "e", "y">>] }

NoClient ==
    [attrs |-> {}, _baseUrl |-> <<>>, _signer |-> NoneVal,
     _publicKey |-> <<>>, _address |-> <<>>]

\* what open(keyFile) / fd.read() can do
FileOutcomes ==
    { Raise(Exc("FileNotFoundError", <<"No such file or directory">>)),
      Raise(Exc("PermissionError", <<"Permission denied">>)),
      Raise(Exc("UnicodeDecodeError", <<"invalid start byte">>)) }
    \cup { Return(content) : content \in SeqsUpTo(FileChars, MaxFileLen) }

\* _hash(FAMILY_NAME.encode('utf-8'))[0:6] + _hash(publicKey.encode('utf-8'))[0:64]
Address(publicKey) == HashPrefix(FAMILY_NAME, 6) \o HashPrefix(publicKey, 64)

\* SimpleWalletClient.__init__(baseUrl, keyFile); file is the answer of the file
\* system. Gives the instance attributes set so far and how __init__ ended.
Init__(baseUrl, keyFile, file) ==
    LET s0 == [NoClient EXCEPT !.attrs = {"_baseUrl"}, !._baseUrl = baseUrl] IN
    IF keyFile.tag = "None"
    THEN [self |-> [s0 EXCEPT !.attrs = @ \cup {"_signer"}, !._signer = NoneVal],
          outcome |-> Return(NoneVal), events |-> <<>>]
    ELSE
    LET evs == << [ev |-> "open", path |-> keyFile.path] >> IN
    IF file.kind = "raise"
    THEN IF IsInstance(file.exc, "OSError")
         THEN [self |-> s0, events |-> evs,
               outcome |-> Raise(SimpleWalletException(
                   <<"Failed to read private key ">> \o keyFile.path \o <<": ">>
                     \o StrExc(file.exc)))]
         ELSE [self |-> s0, events |-> evs, outcome |-> file]
    ELSE
    LET privateKeyStr == Strip(file.value)
        parsed == FromHex(privateKeyStr)
    IN
    IF parsed.kind = "raise"
    THEN IF IsInstance(parsed.exc, "ParseError")
         THEN [self |-> s0, events |-> evs,
               outcome |-> Raise(SimpleWalletException(
                   <<"Failed to load private key: ">> \o StrExc(parsed.exc)))]
         ELSE [self |-> s0, events |-> evs, outcome |-> parsed]
    ELSE
    LET publicKey == PublicKeyHex(parsed.value) IN
    [self |-> [s0 EXCEPT !.attrs = @ \cup {"_signer", "_publicKey", "_address"},
                         !._signer = parsed.value,
                         !._publicKey = publicKey,
                         !._address = Address(publicKey)],
     events |-> evs,
     outcome |-> Return(NoneVal)]

----------------------------------------------------------------------------
(* The REST gateway as seen through the requests library *)

\* Response.ok: the status is below 400
Ok(status_code) == status_code < 400

Reasons(status_code) ==
    CASE status_code = 200 -> <<"OK">>
      [] status_code = 202 -> <<"Accepted">>
      [] status_code = 302 -> <<"Found">>
      [] status_code = 304 -> <<"Not Modified">>
      [] status_code = 404 -> <<"Not Found">>
      [] status_code = 500 -> <<"Internal Server Error">>
      [] OTHER -> <<"Unknown">>

StatusCodes == {200, 304, 404}

\* exceptions requests.get / requests.post can raise
TransportErrors ==
    { Exc("ConnectionError", <<"Connection refused">>),
      Exc("ReadTimeout", <<"Read timed out">>),
      Exc("KeyboardInterrupt", <<>>) }

Response(status_code, text) ==
    [kind |-> "response", status_code |-> status_code,
     reason |-> Reasons(status_code), text |-> text]

\* the except clauses of _send_to_restapi without the catch-all: the
\* exception of the try block escapes as it is
SendExceptNoCatchAll(e, url) ==
    IF IsInstance(e, "ConnectionError")
    THEN SimpleWalletException(
             <<"Failed to connect to ">> \o url \o <<": ">> \o StrExc(e))
    ELSE e

\* the except clauses of _send_to_restapi applied to an exception e raised in
\* its try block
SendExcept(e, url) ==
    IF IsInstance(e, "ConnectionError")
    THEN SimpleWalletException(
             <<"Failed to connect to ">> \o url \o <<": ">> \o StrExc(e))
    ELSE \* except BaseException as err: raise SimpleWalletException(err)
         SimpleWalletException(StrExc(e))

\* the URL _send_to_restapi builds
Url(baseUrl, suffix) ==
    IF StartsWith(baseUrl, <<"h", "t", "t", "p", ":", "/", "/">>)
    THEN baseUrl \o <<"/">> \o suffix
    ELSE <<"h", "t", "t", "p", ":", "/", "/">> \o baseUrl \o <<"/">> \o suffix

\* the one request _send_to_restapi issues: requests.post when there is data,
\* requests.get when there is none
Request(self, suffix, data, contentType) ==
    [ev |-> "http",
     method |-> IF data.tag = "None" THEN "GET" ELSE "POST",
     url |-> Url(self._baseUrl, suffix), suffix |-> suffix,
     headers |-> IF contentType.tag = "None" THEN <<>>
                 ELSE << <<"Content-Type", contentType.text>> >>,
     data |-> data]

\* the try block of _send_to_restapi, given the gateway's answer net: a raised
\* exception or a response
TryBlock(net) ==
    IF net.kind = "raise" THEN Raise(net.exc)
    ELSE IF ~Ok(net.status_code)
    THEN Raise(SimpleWalletException(
             <<"Error ">> \o StrInt(net.status_code) \o <<": ">> \o net.reason))
    ELSE Return(net.text)

\* _send_to_restapi that issues the request a second time when the first fails
SendToRestapiRetry(self, suffix, data, contentType, net) ==
    LET request == Request(self, suffix, data, contentType)
        inTry == TryBlock(net)
    IN
    [self |-> self,
     events |-> IF inTry.kind = "raise" THEN <<request, request>> ELSE <<request>>,
     outcome |-> IF inTry.kind = "raise" THEN Raise(SendExcept(inTry.exc, request.url))
                 ELSE inTry]

\* _send_to_restapi that stores the normalised base URL back into the client
SendToRestapiStoresUrl(self, suffix, data, contentType, net) ==
    LET request == Request(self, suffix, data, contentType)
        inTry == TryBlock(net)
    IN
    [self |-> [self EXCEPT !._baseUrl = Url(self._baseUrl, <<>>)],
     events |-> <<request>>,
     outcome |-> IF inTry.kind = "raise" THEN Raise(SendExcept(inTry.exc, request.url))
                 ELSE inTry]

\* _send_to_restapi(suffix, data, contentType); net is the gateway's answer to
\* the one request
SendToRestapi(self, suffix, data, contentType, net) ==
    LET request == Request(self, suffix, data, contentType)
        inTry == TryBlock(net)
    IN
    [self |-> self,
     events |-> <<request>>,
     outcome |-> IF inTry.kind = "raise" THEN Raise(SendExcept(inTry.exc, request.url))
                 ELSE inTry]

AttributeError(name) ==
    Exc("AttributeError",
        <<"'SimpleWalletClient' object has no attribute '", name, "'">>)

\* ",".join([action, str(value)]).encode()
Payload(action, value) == <<action, ",">> \o StrInt(value)

\* a TransactionHeader whose output list is left empty
TransactionHeaderNoOutputs(self, payload, now) ==
    [signer_public_key |-> self._publicKey,
     family_name |-> FAMILY_NAME,
     family_version |-> <<"1", ".", "0">>,
     inputs |-> <<self._address>>,
     outputs |-> <<>>,
     dependencies |-> <<>>,
     payload_sha512 |-> Hash(payload),
     batcher_public_key |-> self._publicKey,
     nonce |-> FloatHex(now)]

\* the fields of the TransactionHeader; now is the reading of time.time()
TransactionHeader(self, payload, now) ==
    [signer_public_key |-> self._publicKey,
     family_name |-> FAMILY_NAME,
     family_version |-> <<"1", ".", "0">>,
     inputs |-> <<self._address>>,
     outputs |-> <<self._address>>,
     dependencies |-> <<>>,
     payload_sha512 |-> Hash(payload),
     batcher_public_key |-> self._publicKey,
     nonce |-> FloatHex(now)]

\* the fields of the BatchHeader over transactionList
BatchHeader(self, transactionList) ==
    [signer_public_key |-> self._publicKey,
     transaction_ids |->
         [i \in 1..Len(transactionList) |-> transactionList[i].header_signature]]

\* _wrap_and_send(action, value); now is the reading of time.time(), net the
\* gateway's answer
WrapAndSend(self, action, value, now, net) ==
    LET payload == Payload(action, value) IN
    IF "_address" \notin self.attrs
    THEN [self |-> self, events |-> <<>>, built |-> <<>>,
          outcome |-> Raise(AttributeError("_address"))]
    ELSE
    LET txnHeaderFields == TransactionHeader(self, payload, now)
        header == SerializeToString("TransactionHeader", txnHeaderFields)
        transaction == [header |-> header, payload |-> payload,
                        header_signature |-> Sign(self._signer, header)]
        transactionList == <<transaction>>
        batchHeader ==
            SerializeToString("BatchHeader", BatchHeader(self, transactionList))
        batch == [header |-> batchHeader, transactions |-> transactionList,
                  header_signature |-> Sign(self._signer, batchHeader)]
        batch_list == [batches |-> <<batch>>]
        sent == SendToRestapi(self, <<"batches">>,
                    [tag |-> "bytes", bytes |-> SerializeToString("BatchList", batch_list)],
                    [tag |-> "str", text |-> "application/octet-stream"],
                    net)
    IN
    [self |-> sent.self,
     built |-> <<txnHeaderFields>>,
     events |-> << [ev |-> "sign", what |-> "TransactionHeader"],
                   [ev |-> "sign", what |-> "BatchHeader"] >> \o sent.events,
     outcome |-> sent.outcome]

\* deposit(value)
Deposit(self, value, now, net) == WrapAndSend(self, "deposit", value, now, net)

\* withdraw(value)
Withdraw(self, value, now, net) == WrapAndSend(self, "withdraw", value, now, net)

----------------------------------------------------------------------------
(* base64.b64decode and yaml.safe_load, as balance() uses them *)

B64Alphabet ==
    <<"A", "B", "C", "D", "E", "F", "G", "H", "I", "J", "K", "L", "M",
      "N", "O", "P", "Q", "R", "S", "T", "U", "V", "W", "X", "Y", "Z",
      "a", "b", "c", "d", "e", "f", "g", "h", "i", "j", "k", "l", "m",
      "n", "o", "p", "q", "r", "s", "t", "u", "v", "w", "x", "y", "z",
      "0", "1", "2", "3", "4", "5", "6", "7", "8", "9", "+", "/">>

B64Chars == { B64Alphabet[i] : i \in 1..64 }

\* the 6-bit value of an alphabet character
B64Index(c) == (CHOOSE i \in 1..64 : B64Alphabet[i] = c) - 1

\* a character outside ASCII
NonAscii == "U+00E9"

\* binascii.a2b_base64 in its default, non-strict mode: one pass over the
\* characters with the position in the current quad, the bits left over, the
\* number of consecutive pad characters seen and the bytes produced so far
RECURSIVE A2bBase64(_, _, _, _, _)
A2bBase64(s, quad_pos, leftchar, pads, out) ==
    IF s = <<>>
    THEN IF quad_pos # 0
         THEN Raise(Exc("binascii.Error",
                  IF quad_pos = 1 THEN <<"Invalid base64-encoded string">>
                  ELSE <<"Incorrect padding">>))
         ELSE Return(out)
    ELSE
    LET c == Head(s) IN
    IF c = "="
    THEN IF quad_pos >= 2 /\ quad_pos + pads + 1 >= 4
         THEN Return(out)
         ELSE A2bBase64(Tail(s), quad_pos, leftchar,
                        IF quad_pos >= 2 THEN pads + 1 ELSE pads, out)
    ELSE IF c \notin B64Chars
    THEN A2bBase64(Tail(s), quad_pos, leftchar, pads, out)
    ELSE
    LET v == B64Index(c) IN
    CASE quad_pos = 0 -> A2bBase64(Tail(s), 1, v, 0, out)
      [] quad_pos = 1 ->
            A2bBase64(Tail(s), 2, v % 16, 0,
                      Append(out, (leftchar * 4 + v \div 16) % 256))
      [] quad_pos = 2 ->
            A2bBase64(Tail(s), 3, v % 4, 0,
                      Append(out, (leftchar * 16 + v \div 4) % 256))
      [] quad_pos = 3 ->
            A2bBase64(Tail(s), 0, 0, 0,
                      Append(out, (leftchar * 64 + v) % 256))

\* base64.b64decode(x) that rejects every character outside the alphabet, as
\* validate=True would
B64DecodeValidate(x) ==
    IF x.tag # "str"
    THEN Raise(Exc("TypeError",
             <<"argument should be a bytes-like object or ASCII string">>))
    ELSE IF \E i \in 1..Len(x.chars) : x.chars[i] \notin B64Chars \cup {"="}
    THEN Raise(Exc("binascii.Error", <<"Non-base64 digit found">>))
    ELSE A2bBase64(x.chars, 0, 0, 0, <<>>)

\* base64.b64decode(x) with the default validate=False
B64Decode(x) ==
    IF x.tag # "str"
    THEN Raise(Exc("TypeError",
             <<"argument should be a bytes-like object or ASCII string">>))
    ELSE IF \E i \in 1..Len(x.chars) : x.chars[i] = NonAscii
    THEN Raise(Exc("ValueError",
             <<"string argument should contain only ASCII characters">>))
    ELSE A2bBase64(x.chars, 0, 0, 0, <<>>)

\* a response body, given by what yaml.safe_load makes of it: not parsable, an
\* empty document, a list, or a mapping whose "data" entry is absent, a number
\* or a string
Doc(shape, data) == [shape |-> shape, data |-> data]

Absent == [tag |-> "absent"]
IntData == [tag |-> "int"]
StrData(chars) == [tag |-> "str", chars |-> chars]

\* yaml.safe_load(text)["data"]
LoadData(text) ==
    CASE text.shape = "invalid" -> Raise(Exc("YAMLError", <<"could not parse">>))
      [] text.shape = "null" ->
            Raise(Exc("TypeError", <<"'NoneType' object is not subscriptable">>))
      [] text.shape = "list" ->
            Raise(Exc("TypeError", <<"list indices must be integers or slices, not str">>))
      [] OTHER ->
            IF text.data.tag = "absent" THEN Raise(Exc("KeyError", <<"'data'">>))
            ELSE Return(text.data)

\* the try block of balance() and its except clause, applied to the body
DecodeOrNone(text) ==
    LET field == LoadData(text) IN
    IF field.kind = "raise" THEN NoneVal
    ELSE LET decoded == B64Decode(field.value) IN
         IF decoded.kind = "raise" THEN NoneVal
         ELSE [tag |-> "bytes", bytes |-> decoded.value]

\* balance()
Balance(self, net) ==
    IF "_address" \notin self.attrs
    THEN [self |-> self, events |-> <<>>, built |-> <<>>,
          outcome |-> Raise(AttributeError("_address"))]
    ELSE
    LET sent == SendToRestapi(self, <<"s", "t", "a", "t", "e", "/">> \o self._address,
                              NoneVal, NoneVal, net)
    IN
    [self |-> sent.self, events |-> sent.events, built |-> <<>>,
     outcome |-> IF sent.outcome.kind = "raise" THEN sent.outcome
                 ELSE Return(DecodeOrNone(sent.outcome.value))]

----------------------------------------------------------------------------
(* Inputs and environment answers *)

Values == {7, 25}

DataChars == {"Q", "U", "=", "!", NonAscii}

\* the bodies the gateway answers with in the life-cycle specification
SmallDocs ==
    { Doc("invalid", Absent), Doc("map", Absent),
      Doc("map", StrData(<<"Q", "U", "J", "D">>)),
      Doc("map", StrData(<<"Q", "U", "I">>)) }

\* the body the gateway acknowledges a batch with
AckDocs == { Doc("map", Absent) }

\* every shape of body, with every data string up to MaxDataLen
FullDocs ==
    { Doc(shape, Absent) : shape \in {"invalid", "null", "list", "map"} }
    \cup { Doc("map", IntData) }
    \cup { Doc("map", StrData(chars)) : chars \in SeqsUpTo(DataChars, MaxDataLen) }

\* what the gateway can answer to one request, with bodies from docs
NetOutcomes(docs) ==
    { Raise(e) : e \in TransportErrors }
    \cup { Response(c, d) : c \in {x \in StatusCodes : Ok(x)}, d \in docs }
    \cup { Response(c, Doc("invalid", Absent)) : c \in {x \in StatusCodes : ~Ok(x)} }

NoCall ==
    [op |-> "none", arg |-> NoneVal, now |-> 0, net |-> NoneVal,
     outcome |-> Return(NoneVal), events |-> <<>>, built |-> <<>>]

\* addresses named by the requests among events
PostedAddresses(events) ==
    UNION { { t.header.fields.inputs[i] : i \in 1..Len(t.header.fields.inputs) }
            \cup { t.header.fields.outputs[i] : i \in 1..Len(t.header.fields.outputs) } :
            t \in UNION { { b.transactions[j] : j \in 1..Len(b.transactions) } :
                  b \in UNION { { e.data.bytes.fields.batches[k] :
                                    k \in 1..Len(e.data.bytes.fields.batches) } :
                                e \in { events[n] : n \in
                                          { m \in 1..Len(events) :
                                              /\ events[m].ev = "http"
                                              /\ events[m].method = "POST" } } } } }

QueriedAddresses(events) ==
    { Drop(events[n].suffix, 6) :
        n \in { m \in 1..Len(events) :
                  events[m].ev = "http" /\ events[m].method = "GET" } }

----------------------------------------------------------------------------
(* The state machine *)

Init ==
    /\ phase = "new"
    /\ client = NoClient
    /\ clock = 0
    /\ calls = 0
    /\ last = NoCall
    /\ txns = <<>>
    /\ queried = {}
    /\ written = {}

\* client = SimpleWalletClient(baseUrl, keyFile)
Construct ==
    /\ phase = "new"
    /\ \E baseUrl \in BaseUrls, keyFile \in KeyFiles \cup {NoneVal}, file \in FileOutcomes :
         LET r == Init__(baseUrl, keyFile, file) IN
         /\ keyFile.tag = "None" => file = Return(<<>>)
         /\ phase' = IF r.outcome.kind = "return" THEN "ready" ELSE "failed"
         /\ client' = IF r.outcome.kind = "return" THEN r.self ELSE NoClient
         /\ last' = [op |-> "__init__",
                     arg |-> [baseUrl |-> baseUrl, keyFile |-> keyFile],
                     now |-> clock, net |-> file,
                     outcome |-> r.outcome, events |-> r.events, built |-> <<>>]
    /\ UNCHANGED <<clock, calls, txns, queried, written>>

\* the bookkeeping common to the three public operations
Called(op, arg, net, r) ==
    /\ client' = r.self
    /\ calls' = calls + 1
    /\ last' = [op |-> op, arg |-> arg, now |-> clock, net |-> net,
                outcome |-> r.outcome, events |-> r.events, built |-> r.built]
    /\ txns' = txns \o r.built
    /\ queried' = queried \cup QueriedAddresses(r.events)
    /\ written' = written \cup PostedAddresses(r.events)
    /\ UNCHANGED <<phase, clock>>

\* client.deposit(value)
DepositCall ==
    /\ phase = "ready"
    /\ calls < MaxCalls
    /\ \E value \in Values, net \in NetOutcomes(AckDocs) :
         Called("deposit", [tag |-> "int", int |-> value], net,
                Deposit(client, value, clock, net))

\* client.withdraw(value)
WithdrawCall ==
    /\ phase = "ready"
    /\ calls < MaxCalls
    /\ \E value \in Values, net \in NetOutcomes(AckDocs) :
         Called("withdraw", [tag |-> "int", int |-> value], net,
                Withdraw(client, value, clock, net))

\* client.balance()
BalanceCall ==
    /\ phase = "ready"
    /\ calls < MaxCalls
    /\ \E net \in NetOutcomes(SmallDocs) :
         Called("balance", NoneVal, net, Balance(client, net))

\* the wall clock advances between calls
Tick ==
    /\ phase = "ready"
    /\ clock < MaxClock
    /\ clock' = clock + 1
    /\ UNCHANGED <<phase, client, calls, last, txns, queried, written>>

Next == Construct \/ DepositCall \/ WithdrawCall \/ BalanceCall \/ Tick

Spec == Init /\ [][Next]_vars

----------------------------------------------------------------------------
(* balance() alone, on a constructed client, against every body *)

InitBalance ==
    /\ phase = "ready"
    /\ \E baseUrl \in BaseUrls, file \in { Return(<<"a", "0">>), Return(<<" ", "a", "a">>) } :
         client = Init__(baseUrl, CHOOSE k \in KeyFiles : TRUE, file).self
    /\ clock = 0
    /\ calls = 0
    /\ last = NoCall
    /\ txns = <<>>
    /\ queried = {}
    /\ written = {}

BalanceAnyBody ==
    /\ phase = "ready"
    /\ calls = 0
    /\ \E net \in NetOutcomes(FullDocs) :
         Called("balance", NoneVal, net, Balance(client, net))

NextBalance == BalanceAnyBody

SpecBalance == InitBalance /\ [][NextBalance]_vars

----------------------------------------------------------------------------
(* Vocabulary of the properties *)

HttpEvents(events) ==
    { n \in 1..Len(events) : events[n].ev = "http" }

IsWalletOp == last.op \in {"deposit", "withdraw"}

\* the client was constructed without a key file
Keyless == phase = "ready" /\ "_signer" \in client.attrs /\ client._signer.tag = "None"

\* the client holds a signer, a public key and an address
Keyed == phase = "ready" /\ {"_signer", "_publicKey", "_address"} \subseteq client.attrs

\* the gateway answered the last call's request with a success status
QuerySucceeded == last.net.kind = "response" /\ Ok(last.net.status_code)

\* the HTTP exchange of the last call failed
ExchangeFailed ==
    \/ last.net.kind = "raise"
    \/ last.net.kind = "response" /\ ~Ok(last.net.status_code)

RaisedSimpleWalletException ==
    /\ last.outcome.kind = "raise"
    /\ last.outcome.exc.type = "SimpleWalletException"

ReturnedNone ==
    /\ last.outcome.kind = "return"
    /\ last.outcome.value.tag = "None"

ReturnedBytes(bytes) ==
    /\ last.outcome.kind = "return"
    /\ last.outcome.value.tag = "bytes"
    /\ last.outcome.value.bytes = bytes

\* RFC 4648 base64, stated on the bit stream: byte k of the decoding is bits
\* 8(k-1) .. 8k-1 of the concatenated 6-bit values of the data characters
Pow2(n) == IF n = 0 THEN 1 ELSE IF n = 1 THEN 2 ELSE IF n = 2 THEN 4
           ELSE IF n = 3 THEN 8 ELSE IF n = 4 THEN 16 ELSE IF n = 5 THEN 32
           ELSE IF n = 6 THEN 64 ELSE 128

BitAt(d, b) == (B64Index(d[(b \div 6) + 1]) \div Pow2(5 - (b % 6))) % 2

ByteAt(d, k) ==
    BitAt(d, 8 * (k - 1)) * 128 + BitAt(d, 8 * (k - 1) + 1) * 64
    + BitAt(d, 8 * (k - 1) + 2) * 32 + BitAt(d, 8 * (k - 1) + 3) * 16
    + BitAt(d, 8 * (k - 1) + 4) * 8 + BitAt(d, 8 * (k - 1) + 5) * 4
    + BitAt(d, 8 * (k - 1) + 6) * 2 + BitAt(d, 8 * (k - 1) + 7)

\* the bytes that the data characters d encode
BytesOf(d) == [k \in 1..((6 * Len(d)) \div 8) |-> ByteAt(d, k)]

\* number of trailing pad characters of s
PadCount(s) ==
    IF Len(s) >= 2 /\ s[Len(s)] = "=" /\ s[Len(s) - 1] = "=" THEN 2
    ELSE IF Len(s) >= 1 /\ s[Len(s)] = "=" THEN 1 ELSE 0

\* s is base64 as RFC 4648 writes it: whole quads of alphabet characters, the
\* last one possibly closed by one or two pad characters
WellFormedB64(s) ==
    /\ Len(s) % 4 = 0
    /\ \A i \in 1..(Len(s) - PadCount(s)) : s[i] \in B64Chars

\* the positions of s that hold an alphabet character
DataPositions(s) == { i \in 1..Len(s) : s[i] \in B64Chars }

\* the alphabet characters of s at positions below n, in order
RECURSIVE DataBefore(_, _)
DataBefore(s, n) ==
    IF n <= 1 THEN <<>>
    ELSE IF s[n - 1] \in B64Chars THEN Append(DataBefore(s, n - 1), s[n - 1])
    ELSE DataBefore(s, n - 1)

\* position i of s holds a pad character that closes a quad: three data
\* characters precede it in the quad, or two and another pad character with no
\* data character in between
ClosingPad(s, i) ==
    /\ s[i] = "="
    /\ LET q == Cardinality({ j \in DataPositions(s) : j < i }) % 4 IN
       \/ q = 3
       \/ /\ q = 2
          /\ \E j \in 1..(i - 1) :
               /\ s[j] = "="
               /\ \A m \in (j + 1)..(i - 1) : s[m] \notin B64Chars

ClosingPads(s) == { i \in 1..Len(s) : ClosingPad(s, i) }

\* what a lenient decoder makes of s: the data characters up to the first
\* closing pad, or all of them when no pad closes a quad
LenientData(s) ==
    IF ClosingPads(s) = {} THEN DataBefore(s, Len(s) + 1)
    ELSE DataBefore(s, CHOOSE i \in ClosingPads(s) : \A j \in ClosingPads(s) : i <= j)

\* the body of the last response carries a string in its data field
HasStringData ==
    /\ last.net.text.shape = "map"
    /\ last.net.text.data.tag = "str"

DataField == last.net.text.data.chars

----------------------------------------------------------------------------
(* C1 *)

\* C1: on a client constructed with no key file, balance() returns the decoded
\* state when the gateway answers with a well-formed response, and deposit and
\* withdraw fail with SimpleWalletException without sending a request.
C1_KeylessReadOnly ==
    Keyless =>
      /\ (last.op = "balance" /\ QuerySucceeded /\ HasStringData
            /\ WellFormedB64(DataField)) =>
             ReturnedBytes(BytesOf(DataBefore(DataField, Len(DataField) + 1)))
      /\ IsWalletOp =>
             /\ RaisedSimpleWalletException
             /\ HttpEvents(last.events) = {}

----------------------------------------------------------------------------
(* C2 *)

\* C2: whenever the state query of balance() ends in a connection failure,
\* another transport exception, a non-success status or an undecodable body,
\* balance() returns None and raises nothing.
C2_BalanceNeverRaises ==
    (last.op = "balance" /\ HttpEvents(last.events) # {}) =>
      /\ last.outcome.kind = "return"
      /\ ExchangeFailed => ReturnedNone

----------------------------------------------------------------------------
(* C3 *)

\* C3: any two transaction headers built by one client carry different nonces,
\* also when the clock did not advance between the two calls.
C3_NoncesDiffer ==
    \A i, j \in 1..Len(txns) : i # j => txns[i].nonce # txns[j].nonce

----------------------------------------------------------------------------
(* C4 *)

----------------------------------------------------------------------------
(* C5 *)

----------------------------------------------------------------------------
(* C6 *)

\* a base URL that starts with a scheme
HasScheme(baseUrl) ==
    \E n \in 2..(Len(baseUrl) - 2) :
        /\ SubSeq(baseUrl, n, n + 2) = <<":", "/", "/">>
        /\ \A i \in 1..(n - 1) : baseUrl[i] \notin {":", "/"}

\* C6: the request URL is baseUrl + '/' + suffix for a base URL that starts
\* with a scheme, and 'http://' + baseUrl + '/' + suffix for one that has none.
C6_PrefixOnlyWithoutScheme ==
    \A n \in HttpEvents(last.events) :
        last.events[n].url =
            IF HasScheme(client._baseUrl)
            THEN client._baseUrl \o <<"/">> \o last.events[n].suffix
            ELSE <<"h", "t", "t", "p", ":", "/", "/">> \o client._baseUrl
                   \o <<"/">> \o last.events[n].suffix

----------------------------------------------------------------------------
(* C7 *)

\* C7: construction with a key file yields a client with signer, public key
\* and address set, or raises SimpleWalletException: naming the path and the
\* cause when the file cannot be read, naming the parse failure when the key
\* is malformed; after a failure there is no client and no request was issued.
C7_ConstructOrConfigError ==
    (last.op = "__init__" /\ last.arg.keyFile.tag = "path") =>
      \/ /\ last.outcome.kind = "return"
         /\ Keyed
      \/ /\ RaisedSimpleWalletException
         /\ phase = "failed"
         /\ client = NoClient
         /\ HttpEvents(last.events) = {}
         /\ last.net.kind = "raise" =>
              /\ Contains(last.outcome.exc.msg, last.arg.keyFile.path)
              /\ Contains(last.outcome.exc.msg, StrExc(last.net.exc))
         /\ last.net.kind = "return" =>
              Contains(last.outcome.exc.msg,
                       StrExc(FromHex(Strip(last.net.value)).exc))

----------------------------------------------------------------------------
(* C8 *)

\* C8: a call of deposit, withdraw or balance issues at most one HTTP request,
\* also when the request fails; on a client with a key it issues exactly one.
\* The request of deposit and withdraw is a POST to batches with content type
\* application/octet-stream, and is preceded by the signing of the transaction
\* header and then of the batch header; the request of balance is a GET to
\* state/{address}.
C8_SingleRequest ==
    last.op \in {"deposit", "withdraw", "balance"} =>
      /\ Cardinality(HttpEvents(last.events)) <= 1
      /\ Keyed => Cardinality(HttpEvents(last.events)) = 1
      /\ \A n \in HttpEvents(last.events) :
           IF IsWalletOp
           THEN /\ last.events[n].method = "POST"
                /\ last.events[n].suffix = <<"batches">>
                /\ last.events[n].headers =
                     << <<"Content-Type", "application/octet-stream">> >>
                /\ n = 3
                /\ last.events[1] = [ev |-> "sign", what |-> "TransactionHeader"]
                /\ last.events[2] = [ev |-> "sign", what |-> "BatchHeader"]
           ELSE /\ last.events[n].method = "GET"
                /\ last.events[n].suffix =
                     <<"s", "t", "a", "t", "e", "/">> \o client._address
                /\ last.events[n].headers = <<>>

\* a deposit or withdrawal whose one request failed
C8_Witness ==
    /\ IsWalletOp /\ Keyed /\ ExchangeFailed
    /\ Len(last.events) = 3
    /\ last.events[3].ev = "http"

----------------------------------------------------------------------------
(* C9 *)

\* C9: the batch list that deposit(value) or withdraw(value) submits holds one
\* batch with one transaction: its payload is the action name and str(value)
\* joined by a comma; inputs and outputs of its header are both the client's
\* address alone; batcher and signer public key are the client's public key;
\* there are no dependencies; payload_sha512 is the digest of the payload; and
\* transaction_ids of the batch header is the transaction's header signature
\* alone.
C9_BatchShape ==
    IsWalletOp =>
      \A n \in HttpEvents(last.events) :
        LET batch_list == last.events[n].data.bytes.fields
            batch == batch_list.batches[1]
            txn == batch.transactions[1]
            header == txn.header.fields
        IN
        /\ Len(batch_list.batches) = 1
        /\ Len(batch.transactions) = 1
        /\ txn.payload = <<last.op, ",">> \o StrInt(last.arg.int)
        /\ header.inputs = <<client._address>>
        /\ header.outputs = <<client._address>>
        /\ header.signer_public_key = client._publicKey
        /\ header.batcher_public_key = header.signer_public_key
        /\ header.dependencies = <<>>
        /\ header.payload_sha512 = Hash(txn.payload)
        /\ txn.header_signature = Sign(client._signer, txn.header)
        /\ batch.header.fields.transaction_ids = <<txn.header_signature>>

\* a withdrawal of 25 that reached the gateway
C9_Witness ==
    /\ last.op = "withdraw" /\ last.arg.int = 25
    /\ HttpEvents(last.events) # {}
    /\ QuerySucceeded

----------------------------------------------------------------------------
(* C10 *)

\* C10: once the constructor has returned, no call changes the client's base
\* URL, signer, public key or address, whether the call succeeds or fails; and
\* every address balance() queried and every address deposit or withdraw wrote
\* is the client's address.
C10_ClientImmutable ==
    /\ [][phase = "ready" => client' = client]_vars
    /\ [](\A a \in queried \cup written : Keyed /\ a = client._address)

\* both a query and a submission were made, the last call having failed
C10_Witness ==
    /\ queried # {} /\ written # {}
    /\ calls >= 2
    /\ last.outcome.kind = "raise"

====
